---- MODULE Spec2Model ----
(***************************************************************************)
(* Model of the nostr-seed thread generator scripts.                       *)
(*                                                                         *)
(* Three scripts are modelled:                                             *)
(*   "abLinear"  src/src/scripts/generatingHellThread.ts lines 1-307       *)
(*               (profile metadata, alternating A-B thread, linear thread) *)
(*   "flatMeta"  src/src/scripts/generatingHellThread.ts lines 308-526     *)
(*               (profile metadata, flat fan-out, publish raced against a  *)
(*               timeout)                                                  *)
(*   "flatBasic" src/unnamed/part_000                                      *)
(*               (flat fan-out, publish raced against a timeout)           *)
(*                                                                         *)
(* A run is one execution of main().  The relay layer (NDK), the signing   *)
(* library and the timers are the environment: each of their outcomes is a *)
(* nondeterministic choice.                                                *)
(***************************************************************************)
EXTENDS Integers, Sequences, FiniteSets, TLC

(***************************************************************************)
(* Bounds of the model.  The scripts use 31 / 19 / 3 participants,         *)
(* 20 / 100 / 5 replies, a linear depth of 20 and 13 / 13 / 3 relays.      *)
(***************************************************************************)
NumParticipants == 2
TotalReplies == 2
LinearDepth == 2
NumRelays == 2
\* Universe of the parents handed to createNote when it is checked alone.
MaxParentIds == 2
MaxParentTags == 2

Scripts == {"abLinear", "flatMeta", "flatBasic"}
FlatScripts == {"flatMeta", "flatBasic"}
Participants == 1..NumParticipants
Relays == 1..NumRelays

\* locations of main at which a kind-1 note is created and published
NoteLocs == {"top", "first", "reply", "linTop", "linReply"}

VARIABLES
    script,          \* which script runs
    loc,             \* statement of main being executed
    at,              \* position inside the function called from that statement
    i,               \* loop counter of the loop main (or createLinearThread) is in
    participant,     \* the participant whose signer main passes to the callee
    ndkSigner,       \* ndk.signer, the shared client's active signer (0: unset)
    ev,              \* the event being built / signed / published
    evReplyTo,       \* the replyTo argument of the createNote call that built ev
    notes,           \* every note createNote has returned, in creation order
    replyTos,        \* replyTos[k]: id of the replyTo note of notes[k] (0: none)
    outcome,         \* outcome[k]: what the relay layer did with notes[k]
    succeeded,       \* ids of the notes for which publishEvent returned normally
    topNote,         \* main's topNote (id, 0: unset)
    previousNote,    \* main's previousNote (abLinear)
    linTopNote,      \* createLinearThread's topNote
    linPreviousNote, \* createLinearThread's previousNote
    replyPool,       \* main's replyPool (flat scripts): participant per reply
    connectResult,   \* how the connect race in connectToRelays ended
    timer,           \* the publish timeout timer of the pending publishEvent
    orphanTimer,     \* a timeout timer is still pending after its race was settled
    published,       \* what event.publish() resolved with, last time it resolved
    relays,          \* publishEvent's relays / relayUrls: the relay set it reports
    sent,            \* every event handed to event.publish(), in order
    waited,          \* the delays that have elapsed since the last event.publish() call
    exitCode,        \* process exit status (-1: still running)
    error            \* message of the error that unwound to main's catch

vars == <<script, loc, at, i, participant, ndkSigner, ev, evReplyTo, notes, replyTos, outcome,
          succeeded, topNote, previousNote, linTopNote, linPreviousNote, replyPool,
          connectResult, timer, orphanTimer, published, relays, sent, waited,
          exitCode, error>>

(***************************************************************************)
(* Events and tags.  A tag is the tuple the source builds: <<"e", id>>,    *)
(* <<"p", pubkey>> or <<"e", id, "", marker>>.  Ids and pubkeys are        *)
(* numbers; a signed note's id is its position in `notes`.                 *)
(***************************************************************************)
NoEvent == [kind |-> -1, content |-> <<"", 0>>, pubkey |-> 0, tags |-> <<>>, id |-> 0]
NoParent == NoEvent
Undefined == <<>>

\* signer.pubkey of participant p's signer: a key (10, 20, ...) that is neither a
\* participant index nor a note id
pubkeyOf(p) == 10 * p

\* tag[3] in the source (0-based): the marker, undefined on a short tag
Marker(tag) == IF Len(tag) >= 4 THEN tag[4] ELSE "undefined"

\* Array.prototype.find with the test  tag => tag[3] === 'root'  (line 61): the
\* first tag passing it, scanning from the front, else undefined
RECURSIVE findRootMarked(_)
findRootMarked(seq) ==
    IF seq = <<>> THEN Undefined
    ELSE IF Marker(Head(seq)) = "root" THEN Head(seq)
    ELSE findRootMarked(Tail(seq))

\* Array.prototype.find with the test  t => t[0] === 'e'  (line 62)
RECURSIVE findETag(_)
findETag(seq) ==
    IF seq = <<>> THEN Undefined
    ELSE IF Head(seq)[1] = "e" THEN Head(seq)
    ELSE findETag(Tail(seq))

\* NDKEvent.getMatchingTags(name): the tags whose first element is name
getMatchingTags(event, name) == SelectSeq(event.tags, LAMBDA t : t[1] = name)

(***************************************************************************)
(* createNote: the tags of a note.                                         *)
(***************************************************************************)
\* abLinear lines 61-72: the root-marked tag appended to a reply
resolveRootTag_FirstETag(replyTo) ==
    LET parentRootTag == findETag(replyTo.tags)
    IN  IF parentRootTag # Undefined
        THEN <<"e", parentRootTag[2], "", "root">>
        ELSE <<"e", replyTo.id, "", "root">>

resolveRootTag_ParentIsRoot(replyTo) == <<"e", replyTo.id, "", "root">>

resolveRootTag(replyTo) ==
    LET rootTag == findRootMarked(getMatchingTags(replyTo, "e"))
        parentRootTag == findETag(replyTo.tags)
    IN  IF rootTag # Undefined
        THEN <<"e", rootTag[2], "", "root">>
        ELSE IF parentRootTag # Undefined
             THEN <<"e", parentRootTag[2], "", "root">>
             ELSE <<"e", replyTo.id, "", "root">>

\* abLinear lines 53-75
createNoteTags(replyTo) ==
    IF replyTo # NoParent
    THEN << <<"e", replyTo.id>>, <<"p", replyTo.pubkey>>, resolveRootTag(replyTo) >>
    ELSE <<>>

\* flat scripts: lines 358-367 and part_000 lines 30-39
createNoteTagsFlat_NoAuthorTag(replyTo) ==
    IF replyTo # NoParent
    THEN << <<"e", replyTo.id, "", "root">> >>
    ELSE <<>>

createNoteTagsFlat(replyTo) ==
    IF replyTo # NoParent
    THEN << <<"e", replyTo.id, "", "root">>, <<"p", replyTo.pubkey>> >>
    ELSE <<>>

\* createNote up to (not including) event.sign(): the event it has built
createNote_StalePubkey(s, content, signer, replyTo) ==
    [kind |-> 1,
     content |-> content,
     pubkey |-> pubkeyOf(ndkSigner),
     tags |-> IF s = "abLinear" THEN createNoteTags(replyTo)
                                ELSE createNoteTagsFlat(replyTo),
     id |-> 0]

createNote(s, content, signer, replyTo) ==
    [kind |-> 1,
     content |-> content,
     pubkey |-> pubkeyOf(signer),
     tags |-> IF s = "abLinear" THEN createNoteTags(replyTo)
                                ELSE createNoteTagsFlat(replyTo),
     id |-> 0]

(***************************************************************************)
(* What main passes to createNote at each of its statements.               *)
(***************************************************************************)
\* participants[0] and participants[1] (1-based here)
originalPoster == 1
participantB == 2

\* abLinear line 269: the author of the i-th alternating reply
abParticipant_Flipped(k) == IF k % 2 = 0 THEN originalPoster ELSE participantB

abParticipant(k) == IF k % 2 = 0 THEN participantB ELSE originalPoster

\* flat scripts line 501 / part_000 line 136: every reply is a reply to topNote
flatReplyTo_LastNote == notes[Len(notes)]

flatReplyTo == notes[topNote]

\* the signers main can pass to createNote at its current statement
NoteSigners ==
    CASE loc \in {"top", "linTop"} -> {originalPoster}
      [] loc = "first" -> {participantB}
      [] loc = "reply" /\ script = "abLinear" -> {abParticipant(i)}
      [] loc = "reply" /\ script \in FlatScripts -> {replyPool[i]}
      [] loc = "linReply" -> Participants
      [] OTHER -> {}

\* the replyTo main passes to createNote at its current statement
NoteReplyTo_SharedPrevious ==
    CASE loc \in {"top", "linTop"} -> NoParent
      [] loc = "first" -> notes[previousNote]
      [] loc = "reply" /\ script = "abLinear" -> notes[previousNote]
      [] loc = "reply" /\ script \in FlatScripts -> flatReplyTo
      [] loc = "linReply" /\ linPreviousNote = linTopNote -> notes[previousNote]
      [] loc = "linReply" /\ linPreviousNote # linTopNote -> notes[linPreviousNote]
      [] OTHER -> NoParent

NoteReplyTo ==
    CASE loc \in {"top", "linTop"} -> NoParent
      [] loc = "first" -> notes[previousNote]
      [] loc = "reply" /\ script = "abLinear" -> notes[previousNote]
      [] loc = "reply" /\ script \in FlatScripts -> flatReplyTo
      [] loc = "linReply" -> notes[linPreviousNote]
      [] OTHER -> NoParent

\* the content main passes to createNote (the random sentence is left out)
NoteContent ==
    CASE loc = "top" /\ script = "abLinear" -> <<"TOP NOTE (A-B Thread)", 0>>
      [] loc = "top" /\ script \in FlatScripts -> <<"TOP NOTE", 0>>
      [] loc = "first" -> <<"First reply from B", 0>>
      [] loc = "reply" -> <<"reply", i>>
      [] loc = "linTop" -> <<"TOP NOTE (Linear Thread)", 0>>
      [] loc = "linReply" -> <<"linear reply", i>>
      [] OTHER -> <<"", 0>>

(***************************************************************************)
(* The relay layer's answers and what publishEvent makes of them.          *)
(***************************************************************************)
\* event.publish() resolved with nothing (undefined)
Absent == [present |-> FALSE, relays |-> {}]
\* the values event.publish() can resolve with: nothing, or a set of relays
PublishedValues == {Absent} \cup {[present |-> TRUE, relays |-> S] : S \in SUBSET Relays}

\* abLinear lines 109-116: the two checks that throw
publishEventThrows(pub) == (~pub.present) \/ Cardinality(pub.relays) = 0

\* flat scripts line 414 / part_000 line 86: Array.from(undefined) throws a
\* TypeError; Array.from of an empty Set is an empty array
publishEventThrowsFlat(pub) == ~pub.present

\* abLinear line 113, flat line 414 / part_000 line 86: the relays reported
reportedRelays_AllConfigured(pub) == Relays

reportedRelays(pub) == pub.relays

\* main's catch (lines 299-301, 518-520, part_000 153-155): process.exit(1) ends
\* the process there and then, the finally block never runs
MainCatch_Swallow(msg) ==
    /\ loc' = loc
    /\ at' = "pace"
    /\ exitCode' = exitCode
    /\ error' = msg

MainCatch_FinallyWins(msg) ==
    /\ loc' = "exited"
    /\ at' = "none"
    /\ exitCode' = 0
    /\ error' = msg

MainCatch(msg) ==
    /\ loc' = "exited"
    /\ at' = "none"
    /\ exitCode' = 1
    /\ error' = msg

\* publishEvent's catch (lines 124-127, 419-422, part_000 91-94): logs and rethrows,
\* so the error unwinds to main's catch
publishEventCatch_NoRethrow(msg) ==
    /\ loc' = loc
    /\ at' = "delay"
    /\ exitCode' = exitCode
    /\ error' = msg

publishEventCatch(msg) == MainCatch(msg)

\* connectToRelays' try/catch (lines 89-102, 379-392, part_000 51-64): every outcome
\* of the race returns normally, and main goes on to its next statement, the profile
\* loop (lines 249, 480) or the top note (part_000 line 121)
afterConnect_Rethrow(r) ==
    IF r = "connected" THEN (IF script = "flatBasic" THEN "top" ELSE "meta") ELSE "exited"

afterConnect(r) == IF script = "flatBasic" THEN "top" ELSE "meta"

\* the delays of the scripts, in ms: PUBLISH_DELAY_MS (line 16), the literal delays
\* of publishProfileMetadata (line 44), of the flat publishEvent (line 418), of the
\* reply loops (lines 170, 275, 505) and of the grace wait (line 298)
PUBLISH_DELAY_MS_Zero == 500 - 500

PUBLISH_DELAY_MS == 500
ProfileDelayMs == 500
FlatPublishDelayMs == 2000
PaceDelayMs == 2000
GraceDelayMs_Zero == 3000 - 3000

GraceDelayMs == 3000

\* the delay publishEvent awaits after reporting a publish (line 123; flat line 418)
publishDelay(s) == IF s = "abLinear" THEN PUBLISH_DELAY_MS ELSE FlatPublishDelayMs

\* abLinear lines 169 and 274: previousNote = reply
nextPreviousNote_Kept(prev, reply) == prev

nextPreviousNote(prev, reply) == reply

(***************************************************************************)
(* A run of main().                                                        *)
(***************************************************************************)
Init ==
    /\ script \in Scripts
    /\ loc = "connect"
    /\ at = "call"
    /\ i = 0
    /\ participant = 0
    /\ ndkSigner = 0
    /\ ev = NoEvent
    /\ evReplyTo = NoParent
    /\ notes = <<>>
    /\ replyTos = <<>>
    /\ outcome = <<>>
    /\ succeeded = {}
    /\ topNote = 0
    /\ previousNote = 0
    /\ linTopNote = 0
    /\ linPreviousNote = 0
    /\ replyPool = <<>>
    /\ connectResult = "none"
    /\ timer = "none"
    /\ orphanTimer = FALSE
    /\ published = Absent
    /\ relays = {}
    /\ sent = <<>>
    /\ waited = <<>>
    /\ exitCode = -1
    /\ error = ""

\* connectToRelays: the connect promise raced against a 5 s timer; a rejection and
\* a timeout are both caught and logged, and main goes on
ConnectToRelays ==
    /\ loc = "connect"
    /\ \E r \in {"connected", "rejected", "timeout"} :
          /\ connectResult' = r
          /\ orphanTimer' = (r # "timeout")
          /\ loc' = afterConnect(r)
    /\ i' = IF script = "flatBasic" THEN 0 ELSE 1
    /\ at' = "call"
    /\ UNCHANGED <<script, participant, ndkSigner, ev, evReplyTo, notes, replyTos,
                   outcome, succeeded, topNote, previousNote, linTopNote,
                   linPreviousNote, replyPool, timer, published, relays, sent,
                   exitCode, error,
                   waited>>

\* publishProfileMetadata up to event.sign(): sets the signer, builds the kind-0 event
PublishProfileMetadata ==
    /\ loc = "meta" /\ at = "call"
    /\ participant' = i
    /\ ndkSigner' = i
    /\ ev' = [kind |-> 0, content |-> <<"profile", i>>, pubkey |-> pubkeyOf(i),
              tags |-> <<>>, id |-> 0]
    /\ evReplyTo' = NoParent
    /\ at' = "sign"
    /\ UNCHANGED <<script, loc, i, notes, replyTos, outcome, succeeded, topNote,
                   previousNote, linTopNote, linPreviousNote, replyPool,
                   connectResult, timer, orphanTimer, published, relays, sent,
                   exitCode, error,
                   waited>>

\* createNote up to event.sign(), called from main or createLinearThread
CreateNote ==
    /\ loc \in NoteLocs /\ at = "call"
    /\ \E signer \in NoteSigners :
          /\ participant' = signer
          /\ ndkSigner' = signer
          /\ ev' = createNote(script, NoteContent, signer, NoteReplyTo)
    /\ evReplyTo' = NoteReplyTo
    /\ at' = "sign"
    /\ UNCHANGED <<script, loc, i, notes, replyTos, outcome, succeeded, topNote,
                   previousNote, linTopNote, linPreviousNote, replyPool,
                   connectResult, timer, orphanTimer, published, relays, sent,
                   exitCode, error,
                   waited>>

\* event.sign() resolves: the event gets its id; createNote returns the note and
\* the caller binds it (topNote, firstReply, reply)
SignResolves ==
    /\ at = "sign"
    /\ at' = "publish"
    /\ IF loc = "meta"
       THEN UNCHANGED <<ev, notes, replyTos, outcome, topNote, linTopNote>>
       ELSE LET id == Len(notes) + 1
                signed == [ev EXCEPT !.id = id]
            IN  /\ ev' = signed
                /\ notes' = Append(notes, signed)
                /\ replyTos' = Append(replyTos, evReplyTo.id)
                /\ outcome' = Append(outcome, "none")
                /\ topNote' = IF loc = "top" THEN id ELSE topNote
                /\ linTopNote' = IF loc = "linTop" THEN id ELSE linTopNote
    /\ UNCHANGED <<script, loc, i, participant, ndkSigner, evReplyTo, succeeded,
                   previousNote, linPreviousNote, replyPool, connectResult, timer,
                   orphanTimer, published, relays, sent, exitCode, error,
                   waited>>

\* event.sign() rejects: the error unwinds to main's catch
SignRejects_Ignored ==
    /\ at = "sign"
    /\ at' = "publish"
    /\ error' = "sign failed"
    /\ UNCHANGED <<script, loc, i, participant, ndkSigner, ev, evReplyTo, notes,
                   replyTos, outcome, succeeded, topNote, previousNote, linTopNote,
                   linPreviousNote, replyPool, connectResult, timer, orphanTimer,
                   published, relays, sent, exitCode, waited>>

SignRejects ==
    /\ at = "sign"
    /\ MainCatch("sign failed")
    /\ UNCHANGED <<script, i, participant, ndkSigner, ev, evReplyTo, notes, replyTos,
                   outcome, succeeded, topNote, previousNote, linTopNote,
                   linPreviousNote, replyPool, connectResult, timer, orphanTimer,
                   published, relays, sent,
                   waited>>

\* publishProfileMetadata line 42 / 343: event.publish(), awaited with no timeout
ProfilePublish ==
    /\ loc = "meta" /\ at = "publish"
    /\ sent' = Append(sent, ev)
    /\ at' = "await"
    /\ waited' = <<>>
    /\ UNCHANGED <<script, loc, i, participant, ndkSigner, ev, evReplyTo, notes,
                   replyTos, outcome, succeeded, topNote, previousNote, linTopNote,
                   linPreviousNote, replyPool, connectResult, timer, orphanTimer,
                   published, relays, exitCode, error>>

\* the profile event's publish resolves; its value is not looked at
ProfilePublishResolves ==
    /\ loc = "meta" /\ at = "await"
    /\ at' = "delay"
    /\ UNCHANGED <<script, loc, i, participant, ndkSigner, ev, evReplyTo, notes,
                   replyTos, outcome, succeeded, topNote, previousNote, linTopNote,
                   linPreviousNote, replyPool, connectResult, timer, orphanTimer,
                   published, relays, sent, exitCode, error,
                   waited>>

\* publishEvent up to its await: sets the signer, calls event.publish(); the flat
\* scripts arm a 5 s timer and race the publish against it
PublishEvent ==
    /\ loc \in NoteLocs /\ at = "publish"
    /\ ndkSigner' = participant
    /\ sent' = Append(sent, ev)
    /\ timer' = IF script \in FlatScripts THEN "armed" ELSE "none"
    /\ published' = Absent
    /\ relays' = {}
    /\ at' = "await"
    /\ waited' = <<>>
    /\ UNCHANGED <<script, loc, i, participant, ev, evReplyTo, notes, replyTos,
                   outcome, succeeded, topNote, previousNote, linTopNote,
                   linPreviousNote, replyPool, connectResult, orphanTimer, exitCode,
                   error>>

\* event.publish() resolves before any timer: publishEvent throws or reports the
\* relays and starts its post-publish delay
PublishResolves ==
    /\ loc \in NoteLocs /\ at = "await"
    /\ \E pub \in PublishedValues :
          /\ published' = pub
          /\ outcome' = [outcome EXCEPT ![ev.id] =
                            IF pub.present /\ pub.relays # {} THEN "confirmed" ELSE "zero"]
          /\ IF (script = "abLinear" /\ publishEventThrows(pub))
                \/ (script \in FlatScripts /\ publishEventThrowsFlat(pub))
             THEN /\ publishEventCatch("no relay confirmations")
                  /\ UNCHANGED <<relays, succeeded>>
             ELSE /\ relays' = reportedRelays(pub)
                  /\ succeeded' = succeeded \cup {ev.id}
                  /\ at' = "delay"
                  /\ UNCHANGED <<loc, exitCode, error>>
    /\ timer' = "none"
    /\ orphanTimer' = (orphanTimer \/ timer = "armed")
    /\ UNCHANGED <<script, i, participant, ndkSigner, ev, evReplyTo, notes, replyTos,
                   topNote, previousNote, linTopNote, linPreviousNote, replyPool,
                   connectResult, sent,
                   waited>>

\* event.publish() rejects (profile event or note): the error unwinds to main's catch,
\* through publishEvent's catch-and-rethrow for a note
PublishRejects ==
    /\ at = "await"
    /\ outcome' = IF loc \in NoteLocs THEN [outcome EXCEPT ![ev.id] = "rejected"]
                                        ELSE outcome
    /\ IF loc \in NoteLocs THEN publishEventCatch("publish rejected")
                          ELSE MainCatch("publish rejected")
    /\ timer' = "none"
    /\ UNCHANGED <<script, i, participant, ndkSigner, ev, evReplyTo, notes, replyTos,
                   succeeded, topNote, previousNote, linTopNote, linPreviousNote,
                   replyPool, connectResult, orphanTimer, published, relays, sent,
                   waited>>

\* the publish timeout fires first (flat scripts): the race rejects with
\* 'Publish timeout', which unwinds to main's catch
PublishTimeout ==
    /\ loc \in NoteLocs /\ at = "await"
    /\ timer = "armed"
    /\ outcome' = [outcome EXCEPT ![ev.id] = "timeout"]
    /\ publishEventCatch("Publish timeout")
    /\ timer' = "none"
    /\ UNCHANGED <<script, i, participant, ndkSigner, ev, evReplyTo, notes, replyTos,
                   succeeded, topNote, previousNote, linTopNote, linPreviousNote,
                   replyPool, connectResult, orphanTimer, published, relays, sent,
                   waited>>

\* a timeout timer whose race is already settled fires: its rejection is dropped
OrphanTimerFires_FailsRun ==
    /\ orphanTimer
    /\ loc # "exited"
    /\ orphanTimer' = FALSE
    /\ MainCatch("timeout")
    /\ UNCHANGED <<script, i, participant, ndkSigner, ev, evReplyTo, notes, replyTos,
                   outcome, succeeded, topNote, previousNote, linTopNote,
                   linPreviousNote, replyPool, connectResult, timer, published,
                   relays, sent, waited>>

OrphanTimerFires ==
    /\ orphanTimer
    /\ loc # "exited"
    /\ orphanTimer' = FALSE
    /\ UNCHANGED <<script, loc, at, i, participant, ndkSigner, ev, evReplyTo, notes,
                   replyTos, outcome, succeeded, topNote, previousNote, linTopNote,
                   linPreviousNote, replyPool, connectResult, timer, published,
                   relays, sent, exitCode, error,
                   waited>>

\* publishProfileMetadata's 500 ms delay fires: it returns; main's profile loop
\* (lines 249-251, 480-482) goes on, or main goes on to the top note
ProfileReturns ==
    /\ loc = "meta" /\ at = "delay"
    /\ IF i < NumParticipants
       THEN i' = i + 1 /\ loc' = loc
       ELSE i' = 0 /\ loc' = "top"
    /\ at' = "call"
    /\ waited' = Append(waited, [timer |-> "profile", ms |-> ProfileDelayMs])
    /\ UNCHANGED <<script, participant, ndkSigner, ev, evReplyTo, notes, replyTos,
                   outcome, succeeded, topNote, previousNote, linTopNote,
                   linPreviousNote, replyPool, connectResult, timer, orphanTimer,
                   published, relays, sent, exitCode, error>>

\* publishEvent's post-publish delay fires and it returns to main after the top
\* note: abLinear binds previousNote (line 261); the flat scripts draw the reply
\* pool (lines 491-496, part_000 126-131)
TopNotePublished ==
    /\ loc = "top" /\ at = "delay"
    /\ IF script = "abLinear"
       THEN /\ previousNote' = topNote
            /\ loc' = "first"
            /\ i' = 0
            /\ UNCHANGED replyPool
       ELSE /\ replyPool' \in [1..TotalReplies -> Participants]
            /\ loc' = "reply"
            /\ i' = 1
            /\ UNCHANGED previousNote
    /\ at' = "call"
    /\ waited' = Append(waited, [timer |-> "publish", ms |-> publishDelay(script)])
    /\ UNCHANGED <<script, participant, ndkSigner, ev, evReplyTo, notes, replyTos,
                   outcome, succeeded, topNote, linTopNote, linPreviousNote,
                   connectResult, timer, orphanTimer, published, relays, sent,
                   exitCode, error>>

\* abLinear lines 263-268: B's first reply is published, previousNote = firstReply
FirstReplyPublished ==
    /\ loc = "first" /\ at = "delay"
    /\ previousNote' = ev.id
    /\ loc' = "reply"
    /\ i' = 1
    /\ at' = "call"
    /\ waited' = Append(waited, [timer |-> "publish", ms |-> publishDelay(script)])
    /\ UNCHANGED <<script, participant, ndkSigner, ev, evReplyTo, notes, replyTos,
                   outcome, succeeded, topNote, linTopNote, linPreviousNote,
                   replyPool, connectResult, timer, orphanTimer, published, relays,
                   sent, exitCode, error>>

\* a reply of main's loop is published (abLinear lines 273-275, flat 502-505,
\* part_000 137-140): the 2 s pacing delay starts
ReplyPublished ==
    /\ loc = "reply" /\ at = "delay"
    /\ previousNote' = IF script = "abLinear"
                        THEN nextPreviousNote(previousNote, ev.id)
                        ELSE previousNote
    /\ at' = "pace"
    /\ waited' = Append(waited, [timer |-> "publish", ms |-> publishDelay(script)])
    /\ UNCHANGED <<script, loc, i, participant, ndkSigner, ev, evReplyTo, notes,
                   replyTos, outcome, succeeded, topNote, linTopNote,
                   linPreviousNote, replyPool, connectResult, timer, orphanTimer,
                   published, relays, sent, exitCode, error>>

\* createLinearThread lines 158-163: its top note is published
LinearTopPublished ==
    /\ loc = "linTop" /\ at = "delay"
    /\ linPreviousNote' = linTopNote
    /\ loc' = "linReply"
    /\ i' = 1
    /\ at' = "call"
    /\ waited' = Append(waited, [timer |-> "publish", ms |-> publishDelay(script)])
    /\ UNCHANGED <<script, participant, ndkSigner, ev, evReplyTo, notes, replyTos,
                   outcome, succeeded, topNote, previousNote, linTopNote, replyPool,
                   connectResult, timer, orphanTimer, published, relays, sent,
                   exitCode, error>>

\* createLinearThread lines 168-170: a reply of the chain is published
LinearReplyPublished ==
    /\ loc = "linReply" /\ at = "delay"
    /\ linPreviousNote' = nextPreviousNote(linPreviousNote, ev.id)
    /\ at' = "pace"
    /\ waited' = Append(waited, [timer |-> "publish", ms |-> publishDelay(script)])
    /\ UNCHANGED <<script, loc, i, participant, ndkSigner, ev, evReplyTo, notes,
                   replyTos, outcome, succeeded, topNote, previousNote, linTopNote,
                   replyPool, connectResult, timer, orphanTimer, published, relays,
                   sent, exitCode, error>>

\* the 2 s pacing delay of a reply loop fires: next iteration, or the loop ends
PaceFires ==
    /\ at = "pace"
    /\ \/ /\ loc = "reply"
          /\ IF i < TotalReplies
             THEN i' = i + 1 /\ loc' = loc /\ at' = "call"
             ELSE /\ i' = 0
                  /\ loc' = IF script = "abLinear" THEN "linTop" ELSE "grace"
                  /\ at' = IF script = "abLinear" THEN "call" ELSE "wait"
       \/ /\ loc = "linReply"
          /\ IF i < LinearDepth
             THEN i' = i + 1 /\ loc' = loc /\ at' = "call"
             ELSE i' = 0 /\ loc' = "grace" /\ at' = "wait"
    /\ waited' = Append(waited, [timer |-> "pace", ms |-> PaceDelayMs])
    /\ UNCHANGED <<script, participant, ndkSigner, ev, evReplyTo, notes, replyTos,
                   outcome, succeeded, topNote, previousNote, linTopNote,
                   linPreviousNote, replyPool, connectResult, timer, orphanTimer,
                   published, relays, sent, exitCode, error>>

\* the 3 s grace wait fires: the try block ends, finally runs process.exit(0)
GraceFires ==
    /\ loc = "grace"
    /\ loc' = "exited"
    /\ at' = "none"
    /\ exitCode' = 0
    /\ waited' = Append(waited, [timer |-> "grace", ms |-> GraceDelayMs])
    /\ UNCHANGED <<script, i, participant, ndkSigner, ev, evReplyTo, notes, replyTos,
                   outcome, succeeded, topNote, previousNote, linTopNote,
                   linPreviousNote, replyPool, connectResult, timer, orphanTimer,
                   published, relays, sent, error>>

Next ==
    \/ ConnectToRelays
    \/ PublishProfileMetadata
    \/ CreateNote
    \/ SignResolves
    \/ SignRejects
    \/ ProfilePublish
    \/ ProfilePublishResolves
    \/ PublishEvent
    \/ PublishResolves
    \/ PublishRejects
    \/ PublishTimeout
    \/ OrphanTimerFires
    \/ ProfileReturns
    \/ TopNotePublished
    \/ FirstReplyPublished
    \/ ReplyPublished
    \/ LinearTopPublished
    \/ LinearReplyPublished
    \/ PaceFires
    \/ GraceFires

Spec == Init /\ [][Next]_vars

(***************************************************************************)
(* createNote (abLinear lines 47-79) on its own: one call with a signer    *)
(* and a replyTo drawn from a bounded universe of events.                  *)
(***************************************************************************)
BoundedSeq(S, n) == UNION {[1..k -> S] : k \in 0..n}

ParentIds == 1..MaxParentIds

TagUniverse ==
    {<<"e", x>> : x \in ParentIds}
    \cup {<<"e", x, "", m>> : x \in ParentIds, m \in {"root", "reply"}}
    \cup {<<"p", pubkeyOf(q)>> : q \in Participants}

ParentUniverse ==
    [kind : {1},
     content : {<<"parent", 0>>},
     pubkey : {pubkeyOf(q) : q \in Participants},
     tags : BoundedSeq(TagUniverse, MaxParentTags),
     id : ParentIds]

InitCreateNote ==
    /\ script = "abLinear"
    /\ loc = "unit"
    /\ at = "call"
    /\ i = 0
    /\ participant = 0
    /\ ndkSigner = 0
    /\ ev = NoEvent
    /\ evReplyTo = NoParent
    /\ notes = <<>>
    /\ replyTos = <<>>
    /\ outcome = <<>>
    /\ succeeded = {}
    /\ topNote = 0
    /\ previousNote = 0
    /\ linTopNote = 0
    /\ linPreviousNote = 0
    /\ replyPool = <<>>
    /\ connectResult = "none"
    /\ timer = "none"
    /\ orphanTimer = FALSE
    /\ published = Absent
    /\ relays = {}
    /\ sent = <<>>
    /\ waited = <<>>
    /\ exitCode = -1
    /\ error = ""

CallCreateNote ==
    /\ loc = "unit" /\ at = "call"
    /\ \E signer \in Participants, replyTo \in ParentUniverse \cup {NoParent} :
          /\ participant' = signer
          /\ ndkSigner' = signer
          /\ ev' = createNote(script, <<"reply", 0>>, signer, replyTo)
          /\ evReplyTo' = replyTo
    /\ at' = "sign"
    /\ UNCHANGED <<script, loc, i, notes, replyTos, outcome, succeeded, topNote,
                   previousNote, linTopNote, linPreviousNote, replyPool,
                   connectResult, timer, orphanTimer, published, relays, sent,
                   exitCode, error,
                   waited>>

NextCreateNote == CallCreateNote

SpecCreateNote == InitCreateNote /\ [][NextCreateNote]_vars

(***************************************************************************)
(* Vocabulary of the properties.                                           *)
(***************************************************************************)
\* positions of the 'e' tags, and of the root-marked 'e' tags, of a tag list
ETags(tags) == {k \in 1..Len(tags) : tags[k][1] = "e"}
RootTags(tags) == {k \in ETags(tags) : Len(tags[k]) = 4 /\ tags[k][4] = "root"}
PTags(tags) == {k \in 1..Len(tags) : tags[k][1] = "p"}
Least(S) == CHOOSE x \in S : \A y \in S : x <= y

\* the root a reply to `parent` is to carry: the parent's root reference, else the
\* parent's (first) event reference, else the parent itself
ExpectedRoot(parent) ==
    IF RootTags(parent.tags) # {}
    THEN parent.tags[Least(RootTags(parent.tags))][2]
    ELSE IF ETags(parent.tags) # {}
         THEN parent.tags[Least(ETags(parent.tags))][2]
         ELSE parent.id

\* the notes of the linear thread and of the A-B thread, by what main named them
LinearNotes ==
    {k \in 1..Len(notes) :
        notes[k].content[1] \in {"TOP NOTE (Linear Thread)", "linear reply"}}
LinearReplies == {k \in 1..Len(notes) : notes[k].content[1] = "linear reply"}
ABReplies ==
    {k \in 1..Len(notes) :
        script = "abLinear" /\ notes[k].content[1] \in {"First reply from B", "reply"}}

\* publishEvent threw for note k
PublishFailed(k) == outcome[k] # "none" /\ k \notin succeeded

(***************************************************************************)
(* C1: a note createNote builds with a replyTo carries exactly one         *)
(* root-marked 'e' tag, and that tag references the parent's root-marked   *)
(* 'e' tag's id if the parent has one, else the parent's first 'e' tag's   *)
(* id if it has an 'e' tag, else the parent's own id.                      *)
(***************************************************************************)
C1_ExactlyOneResolvedRoot ==
    (at = "sign" /\ evReplyTo # NoParent) =>
        /\ Cardinality(RootTags(ev.tags)) = 1
        /\ \A r \in RootTags(ev.tags) : ev.tags[r][2] = ExpectedRoot(evReplyTo)

\* the parent's first 'e' tag is unmarked and names another note than its
\* root-marked tag: the reply's root is the root-marked one
C1_Witness ==
    /\ loc = "unit" /\ at = "sign"
    /\ evReplyTo.tags = << <<"e", 1>>, <<"e", 2, "", "root">> >>
    /\ evReplyTo.id = 1
    /\ ev.tags[3] = <<"e", 2, "", "root">>

(***************************************************************************)
(* C2: in the linear chain built by createLinearThread from a top note     *)
(* with empty tags, every reply's root-marked 'e' tag references the top   *)
(* note of the chain, at every depth.                                      *)
(***************************************************************************)
C2_LinearRootNeverDrifts ==
    \A k \in LinearReplies :
        notes[linTopNote].tags = <<>> =>
            /\ RootTags(notes[k].tags) # {}
            /\ \A r \in RootTags(notes[k].tags) : notes[k].tags[r][2] = linTopNote

\* the deepest reply of the chain exists and its parent is not the top note
C2_Witness ==
    \E k \in LinearReplies :
        /\ notes[k].content = <<"linear reply", LinearDepth>>
        /\ replyTos[k] # linTopNote
        /\ notes[linTopNote].tags = <<>>

(***************************************************************************)
(* C3: a linear run of depth d whose publishes all succeed creates d+1     *)
(* notes, and its i-th reply carries an 'e' tag referencing the (i-1)-th   *)
(* note of the chain and a root-marked 'e' tag referencing the chain's top *)
(* note.                                                                   *)
(***************************************************************************)
C3_LinearRunShape ==
    (script = "abLinear" /\ (loc = "grace" \/ (loc = "exited" /\ exitCode = 0))) =>
        /\ Cardinality(LinearNotes) = LinearDepth + 1
        /\ \A j \in 1..LinearDepth :
              LET n == notes[linTopNote + j]
              IN  /\ n.content = <<"linear reply", j>>
                  /\ \E t \in ETags(n.tags) : n.tags[t][2] = notes[linTopNote + j - 1].id
                  /\ \E r \in RootTags(n.tags) : n.tags[r][2] = notes[linTopNote].id

\* the run of the script with the linear thread ended normally
C3_Witness ==
    /\ script = "abLinear" /\ loc = "exited" /\ exitCode = 0
    /\ LinearNotes \subseteq succeeded
    /\ Cardinality(LinearNotes) = LinearDepth + 1

(***************************************************************************)
(* C4: every note of every run of the three scripts has at most one        *)
(* root-marked 'e' tag; a note built with a parent has an 'e' tag with the *)
(* parent's id and a 'p' tag with the parent's author pubkey; a note built *)
(* without a parent has no tags.                                           *)
(***************************************************************************)
C4_TagSetInvariant ==
    \A k \in 1..Len(notes) :
        LET tags == notes[k].tags
        IN  /\ Cardinality(RootTags(tags)) <= 1
            /\ replyTos[k] # 0 =>
                  /\ \E t \in ETags(tags) : tags[t][2] = replyTos[k]
                  /\ \E q \in PTags(tags) : tags[q][2] = notes[replyTos[k]].pubkey
            /\ replyTos[k] = 0 => tags = <<>>

\* a flat run has created all its replies, by an author other than the top note's
C4_Witness ==
    /\ script \in FlatScripts
    /\ Len(notes) = 1 + TotalReplies
    /\ \E k \in 2..Len(notes) : notes[k].pubkey # notes[1].pubkey /\ replyTos[k] = 1

(***************************************************************************)
(* C5: in the flat fan-out runs every reply is built with the top note as  *)
(* its parent, whatever became of the publishes of the earlier replies.    *)
(***************************************************************************)
C5_FlatParentIsTopNote ==
    script \in FlatScripts =>
        /\ \A k \in 2..Len(notes) : replyTos[k] = topNote /\ replyTos[replyTos[k]] = 0
        /\ (loc = "reply" /\ at = "sign") => evReplyTo = notes[topNote]
        /\ \A k \in 1..Len(notes) : replyTos[k] = 0 <=> k = topNote

\* a third note is built on the top note after a reply whose publish got no
\* confirmation at all
C5_Witness ==
    /\ script \in FlatScripts
    /\ Len(notes) >= 3
    /\ outcome[2] = "zero"
    /\ replyTos[3] = topNote

(***************************************************************************)
(* C6: in the alternating A-B thread every note after the top note replies *)
(* to the note created just before it, consecutive notes have different    *)
(* authors, and all authors are the two designated participants.           *)
(***************************************************************************)
C6_AlternatingThread ==
    \A k \in ABReplies :
        /\ k >= 2
        /\ replyTos[k] = notes[k - 1].id
        /\ notes[k].pubkey # notes[k - 1].pubkey
        /\ {notes[k].pubkey, notes[k - 1].pubkey}
              \subseteq {pubkeyOf(originalPoster), pubkeyOf(participantB)}

\* the last alternating reply exists
C6_Witness ==
    \E k \in ABReplies :
        /\ notes[k].content = <<"reply", TotalReplies>>
        /\ k = 2 + TotalReplies
        /\ notes[1].pubkey = pubkeyOf(originalPoster)
        /\ notes[2].pubkey = pubkeyOf(participantB)

(***************************************************************************)
(* C7: a publish that ends with zero relay confirmations (event.publish()  *)
(* resolves with an empty set or with nothing) makes publishEvent throw    *)
(* instead of reporting success, and the note is never the parent of a     *)
(* later note.                                                             *)
(***************************************************************************)
C7_ZeroConfirmationsFail ==
    \A k \in 1..Len(notes) :
        outcome[k] = "zero" =>
            /\ k \notin succeeded
            /\ \A j \in 1..Len(notes) : replyTos[j] # k

(***************************************************************************)
(* C8: every publishEvent call is bounded by a timeout: while it awaits    *)
(* the relay layer a timeout timer is armed, so that a publish that never  *)
(* resolves still ends (with a timeout error).                             *)
(***************************************************************************)
C8_PublishBoundedByTimeout ==
    (loc \in NoteLocs /\ at = "await") => timer = "armed"

(***************************************************************************)
(* C9: a publish that at least one relay confirms succeeds, and the relay  *)
(* set publishEvent reports is exactly the set of relays that confirmed,   *)
(* not the configured set.                                                 *)
(***************************************************************************)
C9_ReportsConfirmingRelays ==
    /\ \A k \in 1..Len(notes) : outcome[k] = "confirmed" => k \in succeeded
    /\ (ev.kind = 1 /\ ev.id \in succeeded) =>
          /\ relays = published.relays
          /\ relays \subseteq Relays

\* one relay of several confirmed: the publish succeeded and reports that one
C9_Witness ==
    /\ ev.kind = 1 /\ ev.id \in succeeded /\ at = "delay"
    /\ outcome[ev.id] = "confirmed"
    /\ Cardinality(published.relays) = 1
    /\ Cardinality(relays) = 1
    /\ relays # Relays

C11_ParentsConfirmedByRelay ==
    \A k \in 1..Len(notes) :
        replyTos[k] # 0 => outcome[replyTos[k]] = "confirmed"

(***************************************************************************)
(* The steps of a run that need no answer from the relay layer: the        *)
(* program's own steps, signing, and every timer (connectToRelays' race    *)
(* always has its 5000 ms timer, so ConnectToRelays is one of them).       *)
(***************************************************************************)
ProgramStep ==
    \/ ConnectToRelays
    \/ PublishProfileMetadata
    \/ CreateNote
    \/ SignResolves
    \/ SignRejects
    \/ ProfilePublish
    \/ PublishEvent
    \/ PublishTimeout
    \/ OrphanTimerFires
    \/ ProfileReturns
    \/ TopNotePublished
    \/ FirstReplyPublished
    \/ ReplyPublished
    \/ LinearTopPublished
    \/ LinearReplyPublished
    \/ PaceFires
    \/ GraceFires

\* the steps that are an answer of the relay layer to event.publish()
RelayStep ==
    \/ ProfilePublishResolves
    \/ PublishResolves
    \/ PublishRejects

\* timers fire and the program runs on; the relay layer may never answer
FairSpec == Spec /\ WF_vars(ProgramStep)

(***************************************************************************)
(* C12: every run eventually reaches the end of the process, whatever the  *)
(* relay layer does, provided that timers fire.                            *)
(***************************************************************************)
C12_RunTerminates == <>(loc = "exited")

(***************************************************************************)
(* C13: a run that an error unwound to the top level of main ends with a   *)
(* non-zero exit status and a run that completed without error ends with   *)
(* status 0; the process.exit(0) of the finally block never gives a failed *)
(* run the status 0.                                                       *)
(***************************************************************************)
C13_ExitStatusTellsFailure ==
    /\ (loc = "exited") = (exitCode \in {0, 1})
    /\ loc = "exited" => (exitCode = 0) = (error = "")
    /\ error # "" => loc = "exited" /\ exitCode = 1

\* a run that published notes and then failed has ended with status 1
C13_Witness ==
    /\ loc = "exited" /\ exitCode = 1
    /\ error = "Publish timeout"
    /\ succeeded # {}

(***************************************************************************)
(* C14: connectToRelays never fails the run: whether the connection        *)
(* resolves, rejects or does not resolve within the timeout, it returns    *)
(* normally and main goes on towards publishing the root note.             *)
(***************************************************************************)
C14_ConnectNeverFailsRun ==
    [][loc = "connect" =>
          /\ connectResult' \in {"connected", "rejected", "timeout"}
          /\ loc' \in {"meta", "top"}
          /\ at' = "call"
          /\ exitCode' = exitCode
          /\ error' = ""]_vars

\* the connection timed out, and the root note is being published
C14_Witness ==
    /\ connectResult = "timeout"
    /\ loc = "top" /\ at = "await"
    /\ ev.kind = 1 /\ sent[Len(sent)] = ev

C16_DelayBetweenPublishes ==
    [][(Len(sent') > Len(sent) /\ sent # <<>>) =>
          \E w \in 1..Len(waited) : waited[w].ms > 0]_vars

\* the first reply of the A-B thread is published right after the top note, with
\* only publishEvent's own delay between the two
C16_Witness ==
    /\ script = "abLinear" /\ loc = "first" /\ at = "await"
    /\ Len(sent) = NumParticipants + 2
    /\ waited = <<>>

(***************************************************************************)
(* C17 as stated: every process exit is preceded by the grace period,      *)
(* which comes after the last publish attempt and before the exit, in      *)
(* failed runs as well as in successful ones.                              *)
(***************************************************************************)
C17_EveryExitAfterGrace ==
    loc = "exited" =>
        /\ waited # <<>>
        /\ waited[Len(waited)].timer = "grace"

(***************************************************************************)
(* C17 as amended: the exit of a run that completed without error (status  *)
(* 0) is preceded by the grace period, which comes after the last publish  *)
(* attempt and right before the exit; a run that ends after a failure      *)
(* exits with status 1 from main's catch without a grace period.           *)
(***************************************************************************)
C17_CleanExitAfterGrace ==
    loc = "exited" =>
        IF exitCode = 0
        THEN /\ waited # <<>>
             /\ waited[Len(waited)].timer = "grace"
             /\ waited[Len(waited)].ms > 0
        ELSE \A w \in 1..Len(waited) : waited[w].timer # "grace"

\* a complete run has ended after its grace period
C17_Witness ==
    /\ loc = "exited" /\ exitCode = 0
    /\ Len(waited) >= 2
    /\ waited[Len(waited)].timer = "grace"
    /\ waited[Len(waited) - 1].timer = "pace"

(***************************************************************************)
(* C18: at every sign step and publish step of an event, ndk.signer is the *)
(* signer of the event's author and the event's pubkey is that signer's    *)
(* pubkey.                                                                 *)
(***************************************************************************)
C18_ActiveSignerIsAuthor ==
    at \in {"sign", "await"} =>
        /\ ndkSigner = participant
        /\ ndkSigner \in Participants
        /\ ev.pubkey = pubkeyOf(ndkSigner)

\* a reply is being published by another participant than the note before it
C18_Witness ==
    /\ loc = "reply" /\ at = "await"
    /\ Len(notes) >= 2
    /\ notes[Len(notes)] = ev
    /\ notes[Len(notes) - 1].pubkey # ev.pubkey
    /\ ndkSigner = participant

\* the events sent are the schedule so far, in order and without a gap: the profile
\* events of participants 1, 2, ... and then the notes in the order they were signed
SentIsSchedulePrefix ==
    LET P == Cardinality({j \in 1..Len(sent) : sent[j].kind = 0})
    IN  /\ \A j \in 1..P : sent[j].kind = 0 /\ sent[j].pubkey = pubkeyOf(j)
        /\ \A j \in (P + 1)..Len(sent) : sent[j] = notes[j - P]
        /\ Len(sent) - P \in {Len(notes), Len(notes) - 1}
        /\ P <= NumParticipants
        /\ notes # <<>> => P = (IF script = "flatBasic" THEN 0 ELSE NumParticipants)

(***************************************************************************)
(* C19 as stated: once a publish or sign step has raised an error, the     *)
(* events sent are the prefix of the schedule up to and including the      *)
(* failing event.                                                          *)
(***************************************************************************)
C19_SentIncludesFailingEvent ==
    error # "" =>
        /\ SentIsSchedulePrefix
        /\ sent # <<>>
        /\ sent[Len(sent)] = ev

(***************************************************************************)
(* C19 as amended: runs are fail-stop: once a publish or sign step has     *)
(* raised an error, no further event is created, signed or published; the  *)
(* events sent are the prefix of the schedule up to and including the      *)
(* failing event when its publish failed, and up to but not including it   *)
(* when its signing failed.                                                *)
(***************************************************************************)
C19_FailStop ==
    /\ [](/\ SentIsSchedulePrefix
          /\ error # "" =>
                /\ loc = "exited"
                /\ IF error = "sign failed"
                   THEN /\ ev.id = 0
                        /\ \A j \in 1..Len(sent) : sent[j] # ev
                        /\ \A k \in 1..Len(notes) : notes[k] \in {sent[j] : j \in 1..Len(sent)}
                   ELSE /\ sent # <<>>
                        /\ sent[Len(sent)] = ev)
    /\ [][error # "" => UNCHANGED <<ev, notes, sent>>]_vars

\* the signing of a reply failed after the profile events and the top note were sent
C19_Witness ==
    /\ loc = "exited" /\ error = "sign failed"
    /\ ev.kind = 1 /\ ev.tags # <<>>
    /\ Len(notes) = 1
    /\ sent # <<>> /\ sent[Len(sent)] = notes[1]

(***************************************************************************)
(* C20: a publishEvent call has one outcome, fixed by whichever of the     *)
(* relay layer's answer and the timeout comes first: a publish that timed  *)
(* out is never a success and its note never a parent, the outcome of a    *)
(* publish never changes afterwards, and a timer that fires after its race *)
(* is settled changes nothing of the run.                                  *)
(***************************************************************************)
C20_RaceHasOneOutcome ==
    /\ [](\A k \in 1..Len(notes) :
             outcome[k] = "timeout" =>
                 /\ k \notin succeeded
                 /\ \A n \in 1..Len(notes) : replyTos[n] # k
                 /\ loc = "exited" /\ exitCode = 1)
    /\ [][\A k \in 1..Len(notes) :
             outcome[k] # "none" =>
                 /\ outcome'[k] = outcome[k]
                 /\ (k \in succeeded') = (k \in succeeded)]_vars
    /\ [][(orphanTimer /\ ~orphanTimer') =>
             UNCHANGED <<loc, at, exitCode, error, outcome, succeeded, notes,
                         replyTos, sent>>]_vars

\* the timer of a publish that succeeded has fired, and the run goes on
C20_Witness ==
    /\ script \in FlatScripts
    /\ loc = "reply" /\ at = "delay"
    /\ ev.id \in succeeded
    /\ ~orphanTimer
    /\ exitCode = -1

\* the notes of the A-B thread of the A-B/linear script
ABNotes ==
    {k \in 1..Len(notes) :
        script = "abLinear" /\ notes[k].content[1] \in
            {"TOP NOTE (A-B Thread)", "First reply from B", "reply"}}

\* the ids the 'e' tags of note k reference
ReferencedIds(k) == {notes[k].tags[t][2] : t \in ETags(notes[k].tags)}

\* the ids the root-marked 'e' tags of note k reference
RootIds(k) == {notes[k].tags[r][2] : r \in RootTags(notes[k].tags)}

(***************************************************************************)
(* C21: the two threads of a run of the A-B/linear script never mix: the   *)
(* linear thread starts only after the last A-B reply has been published,  *)
(* its top note has no tags, every A-B reply has the A-B top note as its   *)
(* root, every linear reply has the linear top note as its root, and no    *)
(* note of one thread references a note of the other.                      *)
(***************************************************************************)
C21_ThreadsNeverMix ==
    script = "abLinear" =>
        /\ LinearNotes # {} =>
              /\ Cardinality(ABNotes) = 2 + TotalReplies
              /\ ABNotes \subseteq succeeded
              /\ \A a \in ABNotes : \A l \in LinearNotes : a < l
              /\ linTopNote \in LinearNotes
              /\ notes[linTopNote].tags = <<>>
        /\ \A k \in ABReplies :
              /\ RootIds(k) = {notes[topNote].id}
              /\ replyTos[k] \in ABNotes
              /\ ReferencedIds(k) \subseteq {notes[a].id : a \in ABNotes}
        /\ \A k \in LinearReplies :
              /\ RootIds(k) = {notes[linTopNote].id}
              /\ replyTos[k] \in LinearNotes
              /\ ReferencedIds(k) \subseteq {notes[l].id : l \in LinearNotes}
        /\ ABNotes \cap LinearNotes = {}
        /\ ABNotes \cup LinearNotes = 1..Len(notes)

\* both threads are complete, and the last linear reply answers a linear reply
C21_Witness ==
    /\ script = "abLinear"
    /\ Cardinality(ABNotes) = 2 + TotalReplies
    /\ Cardinality(LinearReplies) = LinearDepth
    /\ replyTos[Len(notes)] \in LinearReplies
    /\ notes[topNote].id # notes[linTopNote].id
    /\ Len(notes) \in succeeded

====
